---- MODULE Spec2Model ----
(***************************************************************************)
(* Model of src/etl.py: the Sparkify ETL job.  main() calls                *)
(* process_song_data and then process_log_data, one statement after the   *)
(* other, with no exception handler anywhere: the first statement that     *)
(* raises ends the run.  The model follows main from the creation of the   *)
(* Spark session (line 187) on.                                            *)
(*                                                                         *)
(* Statements of process_log_data behind line 73 are not modelled as       *)
(* actions because no run reaches them: create_log_dataframe passes        *)
(* str(log_df.timeStamp), a Python str, as the column argument of          *)
(* DataFrame.withColumn, which accepts only a Column and raises.           *)
(***************************************************************************)
EXTENDS Bags, FiniteSets, Integers, Sequences, TLC

VARIABLES
    catalog,        \* records under <input>/song_data/*/*/*/ (unchanged by the job)
    songFiles,      \* TRUE iff the song_data glob matches at least one file
    log,            \* records under <input>/log_data/*/*/*/ (unchanged by the job)
    logFiles,       \* TRUE iff the log_data glob matches at least one file
    pc,             \* position of the run inside main
    run,            \* number of the current run of main
    song_data,      \* the dataframe process_song_data has loaded
    tables,         \* content of the five parquet destinations
    writtenThisRun, \* destinations whose write has completed in this run
    error,          \* the exception that ended this run, "none" while running
    failed,         \* the destination whose write raised in this run, or "none"
    prevTables,     \* content of the destinations when the previous run ended
    prevError       \* the exception that ended the previous run

vars == <<catalog, songFiles, log, logFiles, pc, run, song_data, tables,
          writtenThisRun, error, failed, prevTables, prevError>>

----------------------------------------------------------------------------
(* Bounds of the model *)

MaxCatalog == 2
MaxEvents == 2
MaxRuns == 2

----------------------------------------------------------------------------
(* Input domains *)

NULL == "<null>"

SongIds == {"S1", "S2"}
ArtistIds == {"A1", "A2"}
ArtistNames == {"N1", "N2"}
\* year is declared StringType: the JSON number 0 is read as the string "0"
Years == {"0", "2000", NULL}

\* StructType of create_song_dataframe; title, duration and the geo fields
\* take one value each, they play no part in any condition of the job
songdata_schema ==
    [song_id : SongIds, title : {"T"}, year : Years, duration : {"200.5"},
     artist_id : ArtistIds, artist_name : ArtistNames,
     artist_location : {"L"}, artist_latitude : {NULL},
     artist_longitude : {NULL}]

Pages == {"NextSong", "Home"}
UserIds == {"", "U1"}

\* StructType of create_log_dataframe, restricted to the fields the claims
\* speak of; ts stands for an epoch in milliseconds
logdata_schema ==
    [artist : {"N1"}, page : Pages, userId : UserIds, ts : {1000, 2000},
     firstName : {"F"}, lastName : {"G"}, gender : {"M"}, level : {"free"}]

TableNames == {"songs", "artists", "users", "time", "songplays"}

Bounded(S, n) == {T \in SUBSET S : Cardinality(T) <= n}

----------------------------------------------------------------------------
(* Spark SQL as the job uses it *)

\* Cast of a string to a number, as the comparison  year != 0  applies it
CastToInt(s) ==
    CASE s = "0" -> 0
      [] s = "2000" -> 2000
      [] OTHER -> -1

\* where year != 0 : a NULL operand makes the comparison NULL, which is
\* not TRUE, so the row is filtered out
YearFilter(e) == e.year # NULL /\ CastToInt(e.year) # 0

\* SELECT DISTINCT song_id, title \<newline> artist_id, year, duration :
\* the backslash joins the two source lines and no comma separates  title
\* from  artist_id , so SQL reads  title artist_id  as  title AS artist_id
SongRow(e) ==
    [song_id |-> e.song_id, artist_id |-> e.title, year |-> e.year,
     duration |-> e.duration]

songs_table(df) == SetToBag({SongRow(e) : e \in {x \in df : YearFilter(x)}})

ArtistRow(e) ==
    [artist_id |-> e.artist_id, artist_name |-> e.artist_name,
     artist_location |-> e.artist_location,
     artist_latitude |-> e.artist_latitude,
     artist_longitude |-> e.artist_longitude]

artists_table(df) == SetToBag({ArtistRow(e) : e \in df})

\* mode 'append' in place of 'overwrite'
AppendMode(old, rows) == old (+) rows

\* DataFrameWriter.parquet(path, 'overwrite')
Overwrite(old, rows) == rows

----------------------------------------------------------------------------
(* The run *)

NoTables == [t \in TableNames |-> EmptyBag]

Init ==
    /\ songFiles \in BOOLEAN
    /\ catalog \in IF songFiles THEN Bounded(songdata_schema, MaxCatalog) ELSE {{}}
    /\ logFiles \in BOOLEAN
    /\ log \in IF logFiles THEN Bounded(logdata_schema, MaxEvents) ELSE {{}}
    /\ pc = "process_song_data"
    /\ run = 1
    /\ song_data = {}
    /\ tables = NoTables
    /\ writtenThisRun = {}
    /\ error = "none"
    /\ failed = "none"
    /\ prevTables = NoTables
    /\ prevError = "none"

Inputs == <<catalog, songFiles, log, logFiles>>
History == <<run, prevTables, prevError>>

\* an uncaught exception leaves main
Raise(e) ==
    /\ pc' = "exit"
    /\ error' = e

\* create_song_dataframe: spark.read.json on a glob that matches files
ReadSongData ==
    /\ pc = "process_song_data"
    /\ songFiles
    /\ song_data' = catalog
    /\ pc' = "write_songs"
    /\ UNCHANGED <<Inputs, History, tables, writtenThisRun, error, failed>>

\* create_song_dataframe: the glob matches nothing, the read raises
ReadSongDataNotFound ==
    /\ pc = "process_song_data"
    /\ ~songFiles
    /\ Raise("SourceNotFound")
    /\ UNCHANGED <<Inputs, History, song_data, tables, writtenThisRun, failed>>

WriteDone(t, rows, next) ==
    /\ tables' = [tables EXCEPT ![t] = Overwrite(@, rows)]
    /\ writtenThisRun' = writtenThisRun \cup {t}
    /\ pc' = next
    /\ UNCHANGED <<Inputs, History, song_data, error, failed>>

\* the write raises: the destination keeps its old content or, the
\* overwrite having cleared it already, is left with none
WriteRaises(t) ==
    /\ \E left \in {tables[t], EmptyBag} :
           tables' = [tables EXCEPT ![t] = left]
    /\ failed' = t
    /\ Raise("WriteFailure")
    /\ UNCHANGED <<Inputs, History, song_data, writtenThisRun>>

WriteSongs ==
    /\ pc = "write_songs"
    /\ WriteDone("songs", songs_table(song_data), "write_artists")

WriteSongsFails ==
    /\ pc = "write_songs"
    /\ WriteRaises("songs")

WriteArtists ==
    /\ pc = "write_artists"
    /\ WriteDone("artists", artists_table(song_data), "process_log_data")

WriteArtistsFails ==
    /\ pc = "write_artists"
    /\ WriteRaises("artists")

\* create_log_dataframe: spark.read.json on a glob that matches files
ReadLogData ==
    /\ pc = "process_log_data"
    /\ logFiles
    /\ pc' = "with_startTime"
    /\ UNCHANGED <<Inputs, History, song_data, tables, writtenThisRun, error, failed>>

\* create_log_dataframe: the glob matches nothing, the read raises
ReadLogDataNotFound ==
    /\ pc = "process_log_data"
    /\ ~logFiles
    /\ Raise("SourceNotFound")
    /\ UNCHANGED <<Inputs, History, song_data, tables, writtenThisRun, failed>>

\* log_df.withColumn('startTime', str(log_df.timeStamp)): the second
\* argument is a str, withColumn raises before any row is touched
WithStartTime ==
    /\ pc = "with_startTime"
    /\ Raise("ColumnExpected")
    /\ UNCHANGED <<Inputs, History, song_data, tables, writtenThisRun, failed>>

\* the script is started again on the same inputs
Rerun ==
    /\ pc = "exit"
    /\ run < MaxRuns
    /\ run' = run + 1
    /\ prevTables' = tables
    /\ prevError' = error
    /\ pc' = "process_song_data"
    /\ song_data' = {}
    /\ writtenThisRun' = {}
    /\ error' = "none"
    /\ failed' = "none"
    /\ UNCHANGED <<Inputs, tables>>

Next ==
    \/ ReadSongData
    \/ ReadSongDataNotFound
    \/ WriteSongs
    \/ WriteSongsFails
    \/ WriteArtists
    \/ WriteArtistsFails
    \/ ReadLogData
    \/ ReadLogDataNotFound
    \/ WithStartTime
    \/ Rerun

Spec == Init /\ [][Next]_vars

----------------------------------------------------------------------------
(* What the claims speak of *)

Finished == pc = "exit"

\* the run was ended by its environment: a missing source, a failed write
EnvFailure == error \in {"SourceNotFound", "WriteFailure"}

\* number of rows of bag B that satisfy P, copies counted
RowCount(B, P(_)) ==
    BagCardinality([r \in {x \in BagToSet(B) : P(x)} |-> B[r]])

NoDuplicateRow(B) == \A r \in BagToSet(B) : B[r] = 1

\* the five columns the Song dimension is declared with
SongTuple(e) ==
    [song_id |-> e.song_id, title |-> e.title, artist_id |-> e.artist_id,
     year |-> e.year, duration |-> e.duration]

UserTuple(e) ==
    [userId |-> e.userId, firstName |-> e.firstName, lastName |-> e.lastName,
     gender |-> e.gender, level |-> e.level]

Matches(e) == {c \in catalog : c.artist_name = e.artist}

\* C2: when process_log_data has run, every NextSong event has as many
\* Songplay rows as catalog entries carry its artist name, and every
\* Songplay row carries the song_id and artist_id of a catalog entry.
C2_FactRowPerMatch ==
    (Finished /\ ~EnvFailure) =>
        /\ \A e \in log :
               e.page = "NextSong" =>
                   LET IsOf(r) == r.userId = e.userId /\ r.ts = e.ts
                   IN  RowCount(tables["songplays"], IsOf) = Cardinality(Matches(e))
        /\ \A r \in BagToSet(tables["songplays"]) :
               \E c \in catalog :
                   r.song_id = c.song_id /\ r.artist_id = c.artist_id

\* C3: the written Song dimension holds, once each, exactly the tuples
\* (song_id, title, artist_id, year, duration) of the catalog entries
\* whose year is not 0, every column holding the field of its name.
C3_SongDimension ==
    "songs" \in writtenThisRun =>
        tables["songs"] =
            SetToBag({SongTuple(e) : e \in {x \in catalog : x.year # "0"}})

\* C4: when process_log_data has run, the User dimension is exactly the
\* set of distinct user tuples of all activity events, whatever their page
\* and also when their userId is empty.
C4_UserDimension ==
    (Finished /\ ~EnvFailure) =>
        tables["users"] = SetToBag({UserTuple(e) : e \in log})

\* C5: when process_log_data has run, the Time dimension holds exactly one
\* row for every timestamp of a play event and no row twice.
C5_TimeDimension ==
    (Finished /\ ~EnvFailure) =>
        /\ NoDuplicateRow(tables["time"])
        /\ \A e \in log :
               e.page = "NextSong" =>
                   LET IsOf(r) == r.ts = e.ts
                   IN  RowCount(tables["time"], IsOf) = 1

\* C6: a run that ends because a source matched no file has written none
\* of the five tables.
C6_NoWriteBeforeSources ==
    (Finished /\ error = "SourceNotFound") => writtenThisRun = {}

\* C7: a run in which the write of one table failed has written the other
\* four tables by the time it ends.
C7_OtherTablesWritten ==
    (Finished /\ error = "WriteFailure") =>
        (TableNames \ {failed}) \subseteq writtenThisRun

\* C8: when a run follows another on the same inputs and no write failed
\* in either, each of the five tables holds after the second run the rows
\* it held after the first, every row as often as before.
C8_Idempotent ==
    (Finished /\ run > 1 /\ error # "WriteFailure" /\ prevError # "WriteFailure")
        => tables = prevTables

C8_Witness ==
    /\ Finished
    /\ run > 1
    /\ error # "WriteFailure"
    /\ prevError # "WriteFailure"
    /\ {"songs", "artists"} \subseteq writtenThisRun
    /\ tables["songs"] # EmptyBag
    /\ BagCardinality(tables["artists"]) > 1

\* C10: no two rows of the written Artist dimension share an artist_id.
C10_ArtistIdUnique ==
    "artists" \in writtenThisRun =>
        /\ NoDuplicateRow(tables["artists"])
        /\ \A r1, r2 \in BagToSet(tables["artists"]) :
               r1.artist_id = r2.artist_id => r1 = r2

====
